---- MODULE Spec2Model ----
(***************************************************************************)
(* NeuralNotes: the Whisper transcription engine                           *)
(* (src/ai_pipeline/transcription/whisper_engine.py) and the upload route  *)
(* that drives it (src/backend/routes/meetings.py).                        *)
(*                                                                         *)
(* The process-wide engine holds one attribute, self.model.  Callers are   *)
(* threads of the hosting process; every Python statement that touches     *)
(* shared state (self.model, the file system) is one step of a thread.     *)
(* The third-party collaborators (whisper.load_model, AudioSegment,        *)
(* model.transcribe, os.remove) may fail; their outcomes are chosen        *)
(* nondeterministically.                                                   *)
(***************************************************************************)
EXTENDS Integers, Sequences, FiniteSets, TLC

\* ------------------------------------------------------------------ bounds
\* calls made in one run, over all threads
MaxCalls == 2

\* two callers that may run concurrently
Threads == {1, 2}

\* ------------------------------------------------------------- file paths
\* A path is a directory and a file name; a file name is its stem tokens
\* followed by at most one extension token (".mp3").
AUDIO_TEMP_DIR == "./temp/audio"
AUDIO_OUTPUT_DIR == "./temp/processed"

Path(d, n) == [dir |-> d, name |-> n]

Extensions == {".mp3", ".MP3", ".wav", ".WAV", ".txt"}

\* os.path.splitext(name): (stem, ext); ext is "" when the name has none
HasExt(n) == Len(n) > 1 /\ n[Len(n)] \in Extensions
SplitStem(n) == IF HasExt(n) THEN SubSeq(n, 1, Len(n) - 1) ELSE n
SplitExt(n) == IF HasExt(n) THEN n[Len(n)] ELSE ""

\* str.lower() on an extension
Lower(e) == CASE e = ".MP3" -> ".mp3"
              [] e = ".WAV" -> ".wav"
              [] OTHER -> e

\* convert_to_wav: the path the converted file is written to
OutputPath(input_path) ==
    Path(AUDIO_OUTPUT_DIR, SplitStem(input_path.name) \o <<"_converted", ".wav">>)

\* routes/meetings.py
ALLOWED_EXTENSIONS == {".mp3", ".mp4", ".wav", ".m4a", ".ogg", ".webm", ".flac"}

\* --------------------------------------------------------------- inputs
\* Paths a caller hands to transcribe / cleanup.  Two of them share the base
\* name "a"; "gone.mp3" does not exist on disk; one lies in the output
\* directory and is named like a converted file.
InputPaths == { Path("./in", <<"a", ".mp3">>),
                Path("./other", <<"a", ".wav">>),
                Path("./in", <<"gone", ".mp3">>),
                Path(AUDIO_OUTPUT_DIR, <<"a", "_converted", ".wav">>) }

\* File names of uploads
UploadNames == { <<"talk", ".MP3">>, <<"notes", ".txt">>, <<"noext">> }

None == 0

VARIABLES
    model,         \* WhisperEngine.model: None or a handle (1, 2, ...)
    disk,          \* the file system: path -> id of the call that wrote the file
                   \* (0: the file was there before any call)
    frame,         \* per thread: position and locals of the call it executes
    callCount,     \* calls started so far (call ids)
    loadAttempts,  \* invocations of whisper.load_model
    loadsDone,     \* invocations of whisper.load_model that returned a model
    guardPasses,   \* times "self.model is None" was observed true
    returned,      \* handles returned by load_model calls so far
    uuids,         \* uuid4 values handed out so far
    dispatch,      \* how the host runs the calls: "serial" (one call at a
                   \* time, the event loop) or "concurrent" (threads)
    fmt            \* lines 122-141 taken alone: the dict model.transcribe
                   \* returned and the dict built from it

vars == <<model, disk, frame, callCount, loadAttempts, loadsDone, guardPasses,
          returned, uuids, dispatch, fmt>>

Exists(p) == p \in DOMAIN disk

WriteFile(d, p, w) == [q \in (DOMAIN d) \cup {p} |-> IF q = p THEN w ELSE d[q]]
RemoveFile(d, p) == [q \in (DOMAIN d) \ {p} |-> d[q]]

IdleFrame == [pc |-> "idle", kind |-> "none", id |-> 0,
              audio_path |-> Path("", <<>>), converted_path |-> Path("", <<>>),
              temp_path |-> Path("", <<>>), file_path |-> Path("", <<>>),
              model |-> None, result |-> "none", exc |-> "none",
              response |-> 0, steps |-> <<>>, readFrom |-> -1,
              warned |-> FALSE, removed |-> FALSE, filename |-> <<>>,
              shared |-> FALSE, cleanups |-> 0]

NotFormatting == [phase |-> "idle"]

\* the engine as constructed (lines 29-32), no call made yet
EngineInit ==
    /\ model = None
    /\ disk = [p \in {q \in InputPaths : q.name[1] = "a"} |-> 0]
    /\ frame = [t \in Threads |-> IdleFrame]
    /\ callCount = 0
    /\ loadAttempts = 0
    /\ loadsDone = 0
    /\ guardPasses = 0
    /\ returned = {}
    /\ uuids = 0
    /\ dispatch \in {"serial", "concurrent"}

Init == EngineInit /\ fmt = NotFormatting

\* ------------------------------------------------------------ call frames
Upd(t, f) == frame' = [frame EXCEPT ![t] = f]

Active(u) == frame[u].pc \notin {"idle", "ended"}

\* a thread takes its next call when its previous one has ended; under
\* serial dispatch, when no call at all is in progress
CanCall(t) ==
    /\ ~Active(t)
    /\ callCount < MaxCalls
    /\ dispatch = "serial" => \A u \in Threads : ~Active(u)

NewFrame(k) == [IdleFrame EXCEPT !.kind = k, !.id = callCount + 1]

\* An exception leaving transcribe (or load_model inside it): inside the
\* upload route it is caught by "except Exception" (meetings.py:118),
\* otherwise it ends the call.
Raise(f, e) ==
    IF f.kind = "upload"
    THEN [f EXCEPT !.pc = "up_except", !.exc = e]
    ELSE [f EXCEPT !.pc = "ended", !.exc = e]

\* ------------------------------------------------------------- load_model
CallLoadModel(t) ==
    /\ CanCall(t)
    /\ Upd(t, [NewFrame("load_model") EXCEPT !.pc = "lm_check"])
    /\ callCount' = callCount + 1
    /\ UNCHANGED <<model, disk, loadAttempts, loadsDone, guardPasses, returned, uuids, dispatch, fmt>>

\* line 46: if self.model is None
ModelIsNoneAlways(m) == TRUE
ModelIsNone(m) == m = None

LoadModelCheck(t) ==
    /\ frame[t].pc = "lm_check"
    /\ IF ModelIsNone(model)
       THEN /\ Upd(t, [frame[t] EXCEPT !.pc = "lm_load"])
            /\ guardPasses' = guardPasses + 1
       ELSE /\ Upd(t, [frame[t] EXCEPT !.pc = "lm_ret"])
            /\ UNCHANGED guardPasses
    /\ UNCHANGED <<model, disk, callCount, loadAttempts, loadsDone, returned, uuids, dispatch, fmt>>

\* line 49 under a lock that re-checks the handle (not what the code does)
LoadModelLoadRechecked(t) ==
    /\ frame[t].pc = "lm_load"
    /\ Upd(t, [frame[t] EXCEPT !.pc = "lm_ret"])
    /\ IF model = None
       THEN /\ loadAttempts' = loadAttempts + 1
            /\ loadsDone' = loadsDone + 1
            /\ model' = loadsDone + 1
       ELSE UNCHANGED <<loadAttempts, loadsDone, model>>
    /\ UNCHANGED <<disk, callCount, guardPasses, returned, uuids, dispatch, fmt>>

\* line 49 as if a failed load left a half-built handle in self.model (not
\* what the code does)
LoadModelLoadKeepsFailedHandle(t) ==
    /\ frame[t].pc = "lm_load"
    /\ loadAttempts' = loadAttempts + 1
    /\ \E ok \in BOOLEAN :
         IF ok
         THEN /\ loadsDone' = loadsDone + 1
              /\ model' = loadsDone + 1
              /\ Upd(t, [frame[t] EXCEPT !.pc = "lm_ret"])
         ELSE /\ UNCHANGED loadsDone
              /\ model' = loadsDone + 1
              /\ Upd(t, Raise(frame[t], "LoadError"))
    /\ UNCHANGED <<disk, callCount, guardPasses, returned, uuids, dispatch, fmt>>

\* line 49: self.model = whisper.load_model(self.model_name)
\* every successful underlying load yields a fresh handle; a failed one
\* raises before the assignment
LoadModelLoad(t) ==
    /\ frame[t].pc = "lm_load"
    /\ loadAttempts' = loadAttempts + 1
    /\ \E ok \in BOOLEAN :
         IF ok
         THEN /\ loadsDone' = loadsDone + 1
              /\ model' = loadsDone + 1
              /\ Upd(t, [frame[t] EXCEPT !.pc = "lm_ret"])
         ELSE /\ UNCHANGED <<loadsDone, model>>
              /\ Upd(t, Raise(frame[t], "LoadError"))
    /\ UNCHANGED <<disk, callCount, guardPasses, returned, uuids, dispatch, fmt>>

\* line 52: return self.model; in transcribe (line 100) the value becomes
\* the local "model"
LoadModelReturn(t) ==
    /\ frame[t].pc = "lm_ret"
    /\ returned' = returned \cup {model}
    /\ IF frame[t].kind = "load_model"
       THEN Upd(t, [frame[t] EXCEPT !.pc = "ended", !.model = model])
       ELSE Upd(t, [frame[t] EXCEPT !.pc = "tr_convert", !.model = model,
                                    !.steps = Append(@, "load")])
    /\ UNCHANGED <<model, disk, callCount, loadAttempts, loadsDone, guardPasses, uuids, dispatch, fmt>>

\* ------------------------------------------------------------- transcribe
\* line 100: model = self.load_model() is the first statement with effect
\* (bookkeeping, not in the code: "shared" records that a cleanup of the
\* converted path was in progress during this call, or another call whose
\* converted path is the same was in progress during this call)
Clash(u, p) ==
    /\ Active(u)
    /\ \/ OutputPath(frame[u].audio_path) = OutputPath(p)
       \/ frame[u].kind = "cleanup" /\ frame[u].file_path = OutputPath(p)

EnterTranscribe(t, f) ==
    frame' = [u \in Threads |->
                IF u = t
                THEN [f EXCEPT !.shared = \E v \in Threads \ {t} : Clash(v, f.audio_path)]
                ELSE IF Clash(u, f.audio_path)
                     THEN [frame[u] EXCEPT !.shared = TRUE]
                     ELSE frame[u]]

CallTranscribeNoLoad(t) ==
    /\ CanCall(t)
    /\ \E p \in InputPaths :
         EnterTranscribe(t, [NewFrame("transcribe") EXCEPT !.pc = "tr_convert",
                                                           !.audio_path = p,
                                                           !.model = model])
    /\ callCount' = callCount + 1
    /\ UNCHANGED <<model, disk, loadAttempts, loadsDone, guardPasses, returned, uuids, dispatch, fmt>>

CallTranscribe(t) ==
    /\ CanCall(t)
    /\ \E p \in InputPaths :
         EnterTranscribe(t, [NewFrame("transcribe") EXCEPT !.pc = "lm_check",
                                                           !.audio_path = p])
    /\ callCount' = callCount + 1
    /\ UNCHANGED <<model, disk, loadAttempts, loadsDone, guardPasses, returned, uuids, dispatch, fmt>>

\* lines 63-83 convert_to_wav, called at line 103.  AudioSegment.from_file
\* fails when the input is missing or cannot be decoded; audio.export opens
\* the output for writing and may fail before or after the file appears.
ConvertOutcomes == {"ok", "decode_error", "export_error", "export_error_partial"}

ConvertToWav(t) ==
    /\ frame[t].pc = "tr_convert"
    /\ LET f == frame[t]
           output_path == OutputPath(f.audio_path)
       IN \E o \in ConvertOutcomes :
            /\ (~Exists(f.audio_path)) => o = "decode_error"
            /\ CASE o = "ok" ->
                      /\ disk' = WriteFile(disk, output_path, f.id)
                      /\ Upd(t, [f EXCEPT !.pc = "tr_infer",
                                          !.converted_path = output_path,
                                          !.steps = Append(@, "convert")])
                 [] o = "export_error_partial" ->
                      /\ disk' = WriteFile(disk, output_path, f.id)
                      /\ Upd(t, Raise(f, "ExportError"))
                 [] o = "export_error" ->
                      /\ UNCHANGED disk
                      /\ Upd(t, Raise(f, "ExportError"))
                 [] OTHER ->
                      /\ UNCHANGED disk
                      /\ Upd(t, Raise(f, "DecodeError"))
    /\ UNCHANGED <<model, callCount, loadAttempts, loadsDone, guardPasses, returned, uuids, dispatch, fmt>>

\* line 108: model.transcribe(converted_path, ...) is entered; whisper
\* reads the audio file first and fails when it is not there.
\* The variant below takes a lock that excludes other calls (not in the code).
InferEnterLocked(t) ==
    /\ frame[t].pc = "tr_infer"
    /\ \A u \in Threads \ {t} : frame[u].pc # "tr_inferring"
    /\ LET f == frame[t]
       IN IF Exists(f.converted_path)
          THEN Upd(t, [f EXCEPT !.pc = "tr_inferring",
                                !.readFrom = disk[f.converted_path]])
          ELSE Upd(t, Raise(f, "InferenceError"))
    /\ UNCHANGED <<model, disk, callCount, loadAttempts, loadsDone, guardPasses,
                   returned, uuids, dispatch, fmt>>

InferEnter(t) ==
    /\ frame[t].pc = "tr_infer"
    /\ LET f == frame[t]
       IN IF Exists(f.converted_path)
          THEN Upd(t, [f EXCEPT !.pc = "tr_inferring",
                                !.readFrom = disk[f.converted_path]])
          ELSE Upd(t, Raise(f, "InferenceError"))
    /\ UNCHANGED <<model, disk, callCount, loadAttempts, loadsDone, guardPasses,
                   returned, uuids, dispatch, fmt>>

\* line 108 returns a result, or raises
InferExitPartialResult(t) ==
    /\ frame[t].pc = "tr_inferring"
    /\ \E ok \in BOOLEAN :
         IF ok
         THEN Upd(t, [frame[t] EXCEPT !.pc = "tr_exists", !.steps = Append(@, "infer")])
         ELSE Upd(t, [frame[t] EXCEPT !.pc = "tr_exists", !.exc = "InferenceError"])
    /\ UNCHANGED <<model, disk, callCount, loadAttempts, loadsDone, guardPasses,
                   returned, uuids, dispatch, fmt>>

InferExit(t) ==
    /\ frame[t].pc = "tr_inferring"
    /\ \E ok \in BOOLEAN :
         IF ok
         THEN Upd(t, [frame[t] EXCEPT !.pc = "tr_exists", !.steps = Append(@, "infer")])
         ELSE Upd(t, Raise(frame[t], "InferenceError"))
    /\ UNCHANGED <<model, disk, callCount, loadAttempts, loadsDone, guardPasses,
                   returned, uuids, dispatch, fmt>>

\* line 119: if os.path.exists(converted_path)
ConvertedExists(t) ==
    /\ frame[t].pc = "tr_exists"
    /\ IF Exists(frame[t].converted_path)
       THEN Upd(t, [frame[t] EXCEPT !.pc = "tr_remove"])
       ELSE Upd(t, [frame[t] EXCEPT !.pc = "tr_format"])
    /\ UNCHANGED <<model, disk, callCount, loadAttempts, loadsDone, guardPasses,
                   returned, uuids, dispatch, fmt>>

\* line 120: os.remove(converted_path); it raises when the file has gone
\* since line 119 or when the operating system refuses
RemoveConvertedSkipped(t) ==
    /\ frame[t].pc = "tr_remove"
    /\ Upd(t, [frame[t] EXCEPT !.pc = "tr_format", !.steps = Append(@, "delete")])
    /\ UNCHANGED <<model, disk, callCount, loadAttempts, loadsDone, guardPasses,
                   returned, uuids, dispatch, fmt>>

RemoveConverted(t) ==
    /\ frame[t].pc = "tr_remove"
    /\ LET f == frame[t]
       IN \E ok \in BOOLEAN :
            IF ok /\ Exists(f.converted_path)
            THEN /\ disk' = RemoveFile(disk, f.converted_path)
                 /\ Upd(t, [f EXCEPT !.pc = "tr_format", !.steps = Append(@, "delete")])
            ELSE /\ UNCHANGED disk
                 /\ Upd(t, Raise(f, "OSError"))
    /\ UNCHANGED <<model, callCount, loadAttempts, loadsDone, guardPasses, returned, uuids, dispatch, fmt>>

\* lines 122-141: the result is built and returned
TranscribeReturn(t) ==
    /\ frame[t].pc = "tr_format"
    /\ LET f == [frame[t] EXCEPT !.result = "result", !.steps = Append(@, "return")]
       IN IF f.kind = "upload"
          THEN Upd(t, [f EXCEPT !.pc = "up_respond"])
          ELSE Upd(t, [f EXCEPT !.pc = "ended"])
    /\ UNCHANGED <<model, disk, callCount, loadAttempts, loadsDone, guardPasses,
                   returned, uuids, dispatch, fmt>>

\* ---------------------------------------------------------------- cleanup
\* (bookkeeping: a transcribe in progress whose converted path is the path
\* handed to cleanup is marked "shared")
CallCleanup(t) ==
    /\ CanCall(t)
    /\ \E p \in InputPaths :
         frame' = [u \in Threads |->
                     IF u = t
                     THEN [NewFrame("cleanup") EXCEPT !.pc = "cl_exists",
                                                      !.file_path = p,
                                                      !.cleanups = 1]
                     ELSE IF Active(u) /\ OutputPath(frame[u].audio_path) = p
                          THEN [frame[u] EXCEPT !.shared = TRUE]
                          ELSE frame[u]]
    /\ callCount' = callCount + 1
    /\ UNCHANGED <<model, disk, loadAttempts, loadsDone, guardPasses, returned, uuids, dispatch, fmt>>

\* cleanup returns to its caller: a direct caller, or the "finally" of the
\* upload route, after which the request ends with the response decided
AfterCleanup(f) == [f EXCEPT !.pc = "ended"]

\* line 146: if os.path.exists(file_path)
CleanupExists(t) ==
    /\ frame[t].pc = "cl_exists"
    /\ IF Exists(frame[t].file_path)
       THEN Upd(t, [frame[t] EXCEPT !.pc = "cl_remove"])
       ELSE Upd(t, AfterCleanup(frame[t]))
    /\ UNCHANGED <<model, disk, callCount, loadAttempts, loadsDone, guardPasses,
                   returned, uuids, dispatch, fmt>>

\* lines 145, 149-150: try ... except Exception as e: logger.warning(...)
CleanupDoesNotCatch(f, e) == [f EXCEPT !.pc = "ended", !.exc = e]
CleanupCatch(f, e) == AfterCleanup([f EXCEPT !.warned = TRUE])

\* line 147: os.remove(file_path); it raises when the file has gone since
\* line 146 or when the operating system refuses
CleanupRemove(t) ==
    /\ frame[t].pc = "cl_remove"
    /\ LET f == frame[t]
       IN \E ok \in BOOLEAN :
            IF ok /\ Exists(f.file_path)
            THEN /\ disk' = RemoveFile(disk, f.file_path)
                 /\ Upd(t, AfterCleanup([f EXCEPT !.removed = TRUE]))
            ELSE /\ UNCHANGED disk
                 /\ Upd(t, CleanupCatch(f, "OSError"))
    /\ UNCHANGED <<model, callCount, loadAttempts, loadsDone, guardPasses, returned, uuids, dispatch, fmt>>

\* ----------------------------------------------------- POST /v1/meetings/upload
\* uuid.uuid4().hex: a fresh value on every call
UuidHex == <<"u1", "u2", "u3", "u4", "u5", "u6", "u7", "u8">>

CallUpload(t) ==
    /\ CanCall(t)
    /\ \E n \in UploadNames :
         Upd(t, [NewFrame("upload") EXCEPT !.pc = "up_validate", !.filename = n])
    /\ callCount' = callCount + 1
    /\ UNCHANGED <<model, disk, loadAttempts, loadsDone, guardPasses, returned, uuids, dispatch, fmt>>

\* validate_audio_file (lines 27-34), called at line 82
ValidAudioFileOrNoExtension(n) ==
    SplitExt(n) = "" \/ Lower(SplitExt(n)) \in ALLOWED_EXTENSIONS
ValidAudioFile(n) == Lower(SplitExt(n)) \in ALLOWED_EXTENSIONS

UploadValidate(t) ==
    /\ frame[t].pc = "up_validate"
    /\ IF ValidAudioFile(frame[t].filename)
       THEN Upd(t, [frame[t] EXCEPT !.pc = "up_save"])
       ELSE Upd(t, [frame[t] EXCEPT !.pc = "ended", !.exc = "HTTPException",
                                    !.response = 400])
    /\ UNCHANGED <<model, disk, callCount, loadAttempts, loadsDone, guardPasses,
                   returned, uuids, dispatch, fmt>>

\* save_upload (lines 38-54), called at line 85, outside the try block: a
\* failure to open the file (line 48), or to write all of it once it is
\* open (line 49), ends the request with the framework's 500; temp_path is
\* then never assigned. Otherwise line 90 enters
\* whisper_engine.transcribe(temp_path).
SaveOutcomes == {"saved", "partial", "unopened"}

UploadSave(t) ==
    /\ frame[t].pc = "up_save"
    /\ uuids < Len(UuidHex)
    /\ LET f == frame[t]
           file_path == Path(AUDIO_TEMP_DIR, <<UuidHex[uuids + 1], Lower(SplitExt(f.filename))>>)
       IN \E o \in SaveOutcomes :
            /\ disk' = IF o = "unopened" THEN disk ELSE WriteFile(disk, file_path, f.id)
            /\ IF o = "saved"
               THEN EnterTranscribe(t, [f EXCEPT !.pc = "lm_check",
                                                 !.temp_path = file_path,
                                                 !.audio_path = file_path])
               ELSE Upd(t, [f EXCEPT !.pc = "ended", !.exc = "OSError",
                                     !.response = 500])
    /\ uuids' = uuids + 1
    /\ UNCHANGED <<model, callCount, loadAttempts, loadsDone, guardPasses, returned, dispatch, fmt>>

\* lines 93-116: the success response; then "finally" (line 125) calls
\* whisper_engine.cleanup(temp_path)
UploadRespond(t) ==
    /\ frame[t].pc = "up_respond"
    /\ Upd(t, [frame[t] EXCEPT !.pc = "cl_exists", !.response = 200,
                               !.file_path = frame[t].temp_path,
                               !.cleanups = @ + 1])
    /\ UNCHANGED <<model, disk, callCount, loadAttempts, loadsDone, guardPasses,
                   returned, uuids, dispatch, fmt>>

\* lines 118-120: except Exception -> HTTPException(500); then "finally"
\* (lines 122-125) calls whisper_engine.cleanup(temp_path)
UploadExceptNoFinally(t) ==
    /\ frame[t].pc = "up_except"
    /\ Upd(t, [frame[t] EXCEPT !.pc = "ended", !.response = 500])
    /\ UNCHANGED <<model, disk, callCount, loadAttempts, loadsDone, guardPasses,
                   returned, uuids, dispatch, fmt>>

UploadExcept(t) ==
    /\ frame[t].pc = "up_except"
    /\ Upd(t, [frame[t] EXCEPT !.pc = "cl_exists", !.response = 500,
                               !.file_path = frame[t].temp_path,
                               !.cleanups = @ + 1])
    /\ UNCHANGED <<model, disk, callCount, loadAttempts, loadsDone, guardPasses,
                   returned, uuids, dispatch, fmt>>

\* ------------------------------------------- transcribe, lines 122-141
\* Strings are sequences of characters; times are in thousandths of a second.
WHISPER_MODEL == "base"

MaxTextLen == 4
MaxSegments == 2

Whitespace == {" ", "\n"}
Chars == {"a"} \cup Whitespace

\* str.strip()
RECURSIVE LStrip(_)
LStrip(s) == IF s # <<>> /\ Head(s) \in Whitespace THEN LStrip(Tail(s)) ELSE s

RECURSIVE RStrip(_)
RStrip(s) ==
    IF s # <<>> /\ s[Len(s)] \in Whitespace THEN RStrip(SubSeq(s, 1, Len(s) - 1)) ELSE s

Strip(s) == LStrip(RStrip(s))

\* str.split(): the maximal runs of non-whitespace characters
RECURSIVE SplitFrom(_, _, _)
SplitFrom(s, word, words) ==
    IF s = <<>>
    THEN IF word = <<>> THEN words ELSE Append(words, word)
    ELSE IF Head(s) \in Whitespace
         THEN SplitFrom(Tail(s), <<>>, IF word = <<>> THEN words ELSE Append(words, word))
         ELSE SplitFrom(Tail(s), Append(word, Head(s)), words)

Split(s) == SplitFrom(s, <<>>, <<>>)

\* round(x, 2) on a float whose decimal expansion is exact: to the nearest
\* hundredth, a tie to the even hundredth
Round2Truncated(x) == 10 * (x \div 10)
Round2(x) ==
    LET q == x \div 10
        r == x % 10
    IN IF r < 5 THEN 10 * q
       ELSE IF r > 5 THEN 10 * (q + 1)
       ELSE IF q % 2 = 0 THEN 10 * q ELSE 10 * (q + 1)

\* line 130
SpeakerOfSegment(segment) == IF segment.id = 1 THEN "Speaker 1" ELSE "Speaker 2"
Speaker(segment) == "Speaker 1"

\* lines 125-131
Utterance(segment) ==
    [id |-> segment.id,
     text |-> Strip(segment.text),
     start_time |-> Round2(segment.start),
     end_time |-> Round2(segment.end),
     speaker |-> Speaker(segment)]

\* lines 123-131: for segment in result.get("segments", [])
RECURSIVE UtterancesWithoutEmpty(_)
UtterancesWithoutEmpty(segments) ==
    IF segments = <<>> THEN <<>>
    ELSE IF Strip(Head(segments).text) = <<>>
         THEN UtterancesWithoutEmpty(Tail(segments))
         ELSE <<Utterance(Head(segments))>> \o UtterancesWithoutEmpty(Tail(segments))

Utterances(segments) == [i \in 1..Len(segments) |-> Utterance(segments[i])]

Segments(result) == IF result.has_segments THEN result.segments ELSE <<>>

\* line 136: result.get("language", "en")
Language(result) == IF result.has_language THEN result.language ELSE "en"

\* line 137
DurationOfFirst(utterances) == IF utterances # <<>> THEN utterances[1].end_time ELSE 0
Duration(utterances) ==
    IF utterances # <<>> THEN utterances[Len(utterances)].end_time ELSE 0

\* line 138: len(result["text"].split())
WordCountSplitOnSpace(text) == 1 + Cardinality({i \in 1..Len(text) : text[i] = " "})
WordCount(text) == Len(Split(text))

\* lines 133-141 (processing_time_s, a wall-clock reading, is left out)
FormatResult(result) ==
    LET utterances == Utterances(Segments(result))
    IN [full_text |-> Strip(result.text),
        utterances |-> utterances,
        language |-> Language(result),
        duration_seconds |-> Duration(utterances),
        word_count |-> WordCount(result.text),
        model_used |-> WHISPER_MODEL]

\* what model.transcribe may return
Texts == UNION {[1..n -> Chars] : n \in 0..MaxTextLen}

TimeValues == {0, 6, 125, 375}

SegmentValues ==
    {[id |-> i, text |-> x, start |-> b, end |-> e] :
        i \in {1, 7}, x \in {<<" ", "a">>, <<" ">>},
        b \in TimeValues, e \in TimeValues}

\* whisper's timestamps never run backwards inside a segment
WellTimed(segment) == segment.start <= segment.end

SegmentLists ==
    UNION {[1..n -> {g \in SegmentValues : WellTimed(g)}] : n \in 0..MaxSegments}

WhisperResults ==
    {[text |-> x, has_segments |-> h, segments |-> <<>>,
      has_language |-> l, language |-> "fr"] :
        x \in Texts, h \in BOOLEAN, l \in BOOLEAN}
    \cup
    {[text |-> <<"a", " ", "a">>, has_segments |-> TRUE, segments |-> g,
      has_language |-> TRUE, language |-> "fr"] :
        g \in SegmentLists}

FormatInit ==
    /\ EngineInit
    /\ \E r \in WhisperResults : fmt = [phase |-> "raw", result |-> r]

Format ==
    /\ fmt.phase = "raw"
    /\ fmt' = [phase |-> "returned", result |-> fmt.result,
               transcript |-> FormatResult(fmt.result)]
    /\ UNCHANGED <<model, disk, frame, callCount, loadAttempts, loadsDone,
                   guardPasses, returned, uuids, dispatch>>

FormatSpec == FormatInit /\ [][Format]_vars

\* ------------------------------------------------------------ specification
Step(t) ==
    \/ CallLoadModel(t)
    \/ CallTranscribe(t)
    \/ CallCleanup(t)
    \/ CallUpload(t)
    \/ LoadModelCheck(t)
    \/ LoadModelLoad(t)
    \/ LoadModelReturn(t)
    \/ ConvertToWav(t)
    \/ InferEnter(t)
    \/ InferExit(t)
    \/ ConvertedExists(t)
    \/ RemoveConverted(t)
    \/ TranscribeReturn(t)
    \/ CleanupExists(t)
    \/ CleanupRemove(t)
    \/ UploadValidate(t)
    \/ UploadSave(t)
    \/ UploadRespond(t)
    \/ UploadExcept(t)

\* callers on any thread, interleaved statement by statement
Next == \E t \in Threads : Step(t)

Spec == Init /\ [][Next]_vars

\* ------------------------------------------------------------------ claims
Ended(t) == frame[t].pc = "ended"

\* the transcribe call of thread t (direct, or inside the upload route) is over
TranscribeOver(t) ==
    \/ frame[t].kind = "transcribe" /\ Ended(t)
    \/ frame[t].kind = "upload" /\ frame[t].pc \in {"up_respond", "up_except"}

\* the converted file that convert_to_wav handed to the call of thread t
\* (its local converted_path) is on disk as that call wrote it
OwnConvertedOnDisk(t) ==
    LET p == frame[t].converted_path
    IN Exists(p) /\ disk[p] = frame[t].id

\* C1: when calls are made one after another, the underlying model load
\* succeeds at most once, no load is pending once the handle is set, and
\* every load_model call that returned has returned the one handle, which
\* is the engine's.
C1_LoadOnceSequential ==
    dispatch = "serial" =>
        /\ loadsDone <= 1
        /\ model # None => \A t \in Threads : frame[t].pc # "lm_load"
        /\ returned # {} => loadsDone = 1 /\ returned = {model} /\ model # None
        /\ \A t \in Threads :
             frame[t].kind = "load_model" /\ Ended(t) /\ frame[t].exc = "none"
                 => frame[t].model = model

\* two load_model calls in a row have both returned
C1_Witness ==
    /\ dispatch = "serial"
    /\ \A t \in Threads : frame[t].kind = "load_model" /\ Ended(t) /\ frame[t].model = 1
    /\ loadAttempts = 1

\* C2: whenever a transcribe call is over (result or exception), the
\* converted file that the call wrote is no longer on disk.
C2_IntermediateGoneAtEnd ==
    \A t \in Threads : TranscribeOver(t) => ~OwnConvertedOnDisk(t)

\* C3: once the engine's handle is non-empty it is never assigned again.
C3_HandleNeverReassigned == [][model # None => model' = model]_vars

\* C4: a call that is about to run inference finds the converted file it
\* wrote itself, and inference reads that file and no other call's.
C4_IntermediatePrivate ==
    \A t \in Threads :
        /\ frame[t].pc = "tr_infer" => OwnConvertedOnDisk(t)
        /\ frame[t].pc = "tr_inferring" => frame[t].readFrom = frame[t].id

\* C5: at the step in which transcribe returns its result, the steps taken
\* by the call are, in order, load, convert, infer, delete, return (the
\* delete is left out only when line 119 found the file already gone), and
\* no converted file written by the call is on disk; when no other call
\* with the same converted path ran during the call, the delete was made
\* and nothing exists at the converted path.
ReturnsResult(t) == frame[t].pc = "tr_format" /\ frame'[t].pc # "tr_format"

C6_CleanupNeverRaises ==
    \A t \in Threads :
        frame[t].kind = "cleanup" /\ Ended(t) =>
            /\ frame[t].exc = "none"
            /\ ~(frame[t].warned /\ frame[t].removed)

\* one cleanup found no file, the other failed to delete and logged it
C6_Witness ==
    /\ \A t \in Threads : frame[t].kind = "cleanup" /\ Ended(t)
    /\ \E t \in Threads : frame[t].warned
    /\ \E t \in Threads : ~frame[t].warned /\ ~frame[t].removed

\* C7: a call that raised has no result, a result exists only after load,
\* normalization and inference all succeeded, and the upload route answers
\* 200 only with a result and a failed transcription with 500.
C7_NoPartialResult ==
    \A t \in Threads :
        LET f == frame[t]
        IN /\ f.exc # "none" => f.result = "none"
           /\ f.result = "result" => SubSeq(f.steps, 1, 3) = <<"load", "convert", "infer">>
           /\ f.response = 200 => f.result = "result"
           /\ (f.kind = "upload" /\ f.exc # "none"
                 /\ f.pc \in {"cl_exists", "cl_remove", "ended"}) => f.response \in {400, 500}

\* an upload whose inference failed has been answered 500
C7_Witness ==
    \E t \in Threads :
        /\ frame[t].kind = "upload" /\ Ended(t)
        /\ frame[t].exc = "InferenceError"
        /\ frame[t].response = 500

\* C8: load_model is not at-most-once: every observation of the empty
\* handle at line 46 is followed by an underlying load with no second
\* look at the handle, so two callers that both observe it empty load twice.
C8_EveryGuardPassLoads ==
    guardPasses = loadAttempts + Cardinality({t \in Threads : frame[t].pc = "lm_load"})

\* both callers observed the empty handle and the model was loaded twice
C8_Witness ==
    /\ guardPasses = 2
    /\ loadsDone = 2
    /\ model = 2

\* C9: nothing excludes a second call from inference: a call that has its
\* converted file can always enter model.transcribe, whatever the other
\* calls are doing.
C9_InferenceNeverExcluded ==
    \A t \in Threads : frame[t].pc = "tr_infer" => ENABLED InferEnter(t)

\* two calls are inside inference on the same handle
C9_Witness ==
    /\ \A t \in Threads : frame[t].pc = "tr_inferring"
    /\ frame[1].model = frame[2].model
    /\ frame[1].model # None

\* C10: the load step is the first step of every transcribe call, and a
\* call that is past it holds a non-empty handle (so inference never runs
\* on an empty one) and the engine is warm.
C10_WarmAfterLoadStep ==
    \A t \in Threads :
        /\ frame[t].steps # <<>> =>
              frame[t].steps[1] = "load" /\ frame[t].model # None /\ model # None
        /\ frame[t].pc = "tr_inferring" => frame[t].model # None

\* the first call ever made is a transcribe, and it is inside inference
C10_Witness ==
    \E t \in Threads :
        /\ callCount = 1
        /\ guardPasses = 1
        /\ frame[t].pc = "tr_inferring"
        /\ frame[t].model # None

\* C11: no step of a transcribe call removes or overwrites the call's own
\* input file: the converted path differs from the input path, the input
\* is on disk unchanged after every step of the call, and a file that the
\* call deletes is the converted file that the call itself wrote.
InTranscribe(t) ==
    frame[t].pc \in {"tr_convert", "tr_infer", "tr_inferring", "tr_exists",
                     "tr_remove", "tr_format"}

C11_InputFileUntouched ==
    [][\A t \in Threads :
         (InTranscribe(t) /\ frame'[t] # frame[t]) =>
            LET f == frame[t]
            IN /\ OutputPath(f.audio_path) # f.audio_path
               /\ f.audio_path \in DOMAIN disk =>
                    /\ f.audio_path \in DOMAIN disk'
                    /\ disk'[f.audio_path] = disk[f.audio_path]
               /\ \A p \in (DOMAIN disk) \ (DOMAIN disk') :
                    p = f.converted_path /\ disk[p] = f.id]_vars

\* ---------------------------------------------- claims on the returned dict
Returned == fmt.phase = "returned"

\* the segments the model reported (none when the key is absent)
Reported == IF fmt.result.has_segments THEN fmt.result.segments ELSE <<>>

TokenCount(s) ==
    Cardinality({i \in 1..Len(s) :
                    s[i] \notin Whitespace /\ (i = 1 \/ s[i - 1] \in Whitespace)})

\* C13: word_count (counted on the untrimmed text) is the number of
\* whitespace-delimited tokens of the returned, trimmed full_text.
C13_WordCount ==
    Returned => fmt.transcript.word_count = TokenCount(fmt.transcript.full_text)

\* the model's text had white space to trim, and holds two words
C13_Witness ==
    /\ Returned
    /\ fmt.result.text # fmt.transcript.full_text
    /\ fmt.transcript.word_count = 2

\* r is x rounded to two decimal places (x, r in thousandths)
IsRoundedTo2(x, r) ==
    /\ r % 10 = 0
    /\ r - x <= 5 /\ x - r <= 5
    /\ (r - x = 5 \/ x - r = 5) => (r \div 10) % 2 = 0

\* C14: every utterance's start_time and end_time are the segment's start
\* and end rounded to two decimal places, and start_time <= end_time.
C14_RoundedTimes ==
    Returned =>
        /\ Len(fmt.transcript.utterances) = Len(Reported)
        /\ \A i \in 1..Len(Reported) :
             LET u == fmt.transcript.utterances[i]
             IN /\ IsRoundedTo2(Reported[i].start, u.start_time)
                /\ IsRoundedTo2(Reported[i].end, u.end_time)
                /\ u.start_time <= u.end_time

\* a segment from 0.125 s to 0.375 s came back as 0.12 s to 0.38 s, and one
\* from 0.006 s to 0.006 s as 0.01 s to 0.01 s
C14_Witness ==
    /\ Returned
    /\ Len(Reported) = 2
    /\ Reported[1].start = 125 /\ Reported[1].end = 375
    /\ fmt.transcript.utterances[1].start_time = 120
    /\ fmt.transcript.utterances[1].end_time = 380
    /\ Reported[2].start = 6 /\ fmt.transcript.utterances[2].end_time = 10

\* C15: the utterances are the segments one for one: as many, in the same
\* order, each with its segment's id.
C15_ElementWise ==
    Returned =>
        /\ Len(fmt.transcript.utterances) = Len(Reported)
        /\ \A i \in 1..Len(Reported) : fmt.transcript.utterances[i].id = Reported[i].id

\* ids 7 then 1, the first segment's text white space only: kept as they are
C15_Witness ==
    /\ Returned
    /\ Len(Reported) = 2
    /\ Reported[1].id = 7 /\ Reported[1].text = <<" ">>
    /\ Reported[2].id = 1
    /\ fmt.transcript.utterances[1].id = 7
    /\ fmt.transcript.utterances[2].id = 1

\* C16: every utterance carries the speaker label "Speaker 1".
C16_OneSpeaker ==
    Returned =>
        \A i \in 1..Len(fmt.transcript.utterances) :
            fmt.transcript.utterances[i].speaker = "Speaker 1"

\* two utterances of different segments, both labelled "Speaker 1"
C16_Witness ==
    /\ Returned
    /\ Len(fmt.transcript.utterances) = 2
    /\ fmt.transcript.utterances[1].id # fmt.transcript.utterances[2].id
    /\ \A i \in 1..2 : fmt.transcript.utterances[i].speaker = "Speaker 1"

\* ------------------------------------------------ claims on the upload route
\* the request of thread t is over and its upload had been saved
SavedUploadOver(t) ==
    /\ frame[t].kind = "upload"
    /\ frame[t].pc = "ended"
    /\ frame[t].temp_path # IdleFrame.temp_path

\* C17: once the upload has been saved, cleanup of the saved file is
\* invoked exactly once before the request ends, after a successful and
\* after a failed transcription alike; when the deletion succeeds the saved
\* upload no longer exists after the request.
C17_CleanupOnce ==
    \A t \in Threads :
        SavedUploadOver(t) =>
            /\ frame[t].cleanups = 1
            /\ frame[t].file_path = frame[t].temp_path
            /\ frame[t].response \in {200, 500}
            /\ frame[t].removed => ~Exists(frame[t].temp_path)

\* one request answered 200 and one answered 500 are over, each upload
\* saved, cleaned up once and gone
C17_Witness ==
    \E t, u \in Threads :
        /\ SavedUploadOver(t) /\ frame[t].response = 200
        /\ SavedUploadOver(u) /\ frame[u].response = 500
        /\ \A v \in {t, u} :
             /\ frame[v].cleanups = 1
             /\ frame[v].removed
             /\ ~Exists(frame[v].temp_path)

\* the extension of the upload's file name, in lower case, is not allowed
Unsupported(n) == \A e \in ALLOWED_EXTENSIONS : Lower(SplitExt(n)) # e

\* C18: an upload whose extension, compared case-insensitively, is not in
\* the allowed set takes one step only, the rejection with a 400 error:
\* nothing is written to disk, no unique name is drawn, and the engine is
\* not called (no model load, no normalization, no inference).
C18_RejectedBeforeAnything ==
    [][\A t \in Threads :
         (/\ frame[t].kind = "upload"
          /\ Active(t)
          /\ Unsupported(frame[t].filename)
          /\ frame'[t] # frame[t]) =>
            /\ frame[t].pc = "up_validate"
            /\ frame'[t].pc = "ended"
            /\ frame'[t].response = 400
            /\ frame'[t].exc = "HTTPException"
            /\ frame'[t].temp_path = IdleFrame.temp_path
            /\ frame'[t].steps = <<>>
            /\ frame'[t].cleanups = 0
            /\ UNCHANGED <<disk, uuids, model, loadAttempts, guardPasses>>]_vars

\* "notes.txt" was rejected with 400: the disk is as it was, no name was
\* drawn and no load attempted, while "talk.MP3" was accepted and saved
C18_Witness ==
    \E t, u \in Threads :
        /\ frame[t].kind = "upload" /\ frame[t].filename = <<"notes", ".txt">>
        /\ frame[t].pc = "ended" /\ frame[t].response = 400
        /\ frame[t].id = 1
        /\ \A p \in DOMAIN disk : disk[p] # frame[t].id
        /\ frame[u].kind = "upload" /\ frame[u].filename = <<"talk", ".MP3">>
        /\ frame[u].temp_path \in DOMAIN disk
        /\ uuids = 1

\* --------------------------------------------------- claims on a failed load
\* thread t's underlying load fails in this step
LoadFails(t) ==
    /\ frame[t].pc = "lm_load"
    /\ frame'[t].pc # "lm_load"
    /\ loadsDone' = loadsDone

\* C19: a load that fails inside load_model leaves the handle as it was
\* (empty, if the engine was cold) and the error leaves load_model: it ends
\* the call, or reaches the upload route's handler; no result is returned.
\* The handle only ever holds the result of a successful load, and a call
\* that finds it empty attempts the load again, whatever failed before.
C19_FailedLoadLeavesCold ==
    [][\A t \in Threads :
         /\ LoadFails(t) =>
              /\ model' = model
              /\ frame'[t].exc = "LoadError"
              /\ frame'[t].pc = IF frame[t].kind = "upload" THEN "up_except" ELSE "ended"
              /\ frame'[t].model = None
              /\ frame'[t].result = "none"
              /\ returned' = returned
         /\ model' # None => model' \in 1..loadsDone'
         /\ (frame[t].pc = "lm_check" /\ model = None /\ frame'[t].pc # "lm_check") =>
              frame'[t].pc = "lm_load"
         /\ (frame[t].pc = "lm_load" /\ frame'[t].pc # "lm_load") =>
              loadAttempts' = loadAttempts + 1]_vars

\* serial dispatch: the first call's load failed and left the engine cold,
\* the second call attempted the load again and it succeeded
C19_Witness ==
    /\ dispatch = "serial"
    /\ \E t, u \in Threads :
         /\ frame[t].id = 1 /\ frame[t].pc = "ended" /\ frame[t].exc = "LoadError"
         /\ frame[u].id = 2 /\ frame[u].pc = "ended" /\ frame[u].exc = "none"
         /\ frame[u].model = model
    /\ loadAttempts = 2
    /\ loadsDone = 1
    /\ model = 1

====
